---- MODULE Spec2Model ----
(***************************************************************************)
(* Model of nni/retiarii/converter/utils.py: the name canonicalizer, the   *)
(* trace metadata extractor, the layer-choice detector, the scope resolver *)
(* and the node matcher.                                                   *)
(*                                                                         *)
(* Python strings are sequences of one-character strings, so that          *)
(* formatting and splitting are computed and not assumed.  A Python value  *)
(* that may be None and is otherwise a list or an int is an option:        *)
(* <<>> is None and <<v>> is the value v.  A node reference is the node's  *)
(* identifier, or None.  ret holds what the last call returned, in a field *)
(* named after the kind of result.  stream holds what the caller keeps of  *)
(* a stream of trace records matched against one sub-graph: the model at   *)
(* its start, the records' kind, the sub-graph, and the nodes on which a   *)
(* shape was stored, in order.                                             *)
(***************************************************************************)
EXTENDS Integers, Sequences, FiniteSets, TLC

VARIABLES model, call, ret, stream

vars == <<model, call, ret, stream>>

\* ------------------------------------------------------------- bounds
\* Longest scope-name sequence handed to get_full_name_by_scope_name.
MaxScopeLen == 2
\* Longest raw scopeName() string of a trace record handed to match_node.
MaxPathLen == 3
\* Longest input list of a trace node (and of the node producing its first input).
MaxInputs == 2

\* ------------------------------------------------------------ strings
None == "None"
KeyError == "KeyError"
IndexError == "IndexError"

Str2 == <<"_", "_">>
StrLayerchoice == <<"l", "a", "y", "e", "r", "c", "h", "o", "i", "c", "e", "_">>

PyNone == <<>>
PySome(v) == <<v>>

\* All sequences over S of length at most n.
SeqUpTo(S, n) == UNION {[1..k -> S] : k \in 0..n}

\* str.split(sep) for a one-character separator: the pieces between the
\* separators, in order; always at least one piece.
RECURSIVE SplitFrom(_, _, _, _)
SplitFrom(s, sep, i, cur) ==
    IF i > Len(s) THEN <<cur>>
    ELSE IF s[i] = sep THEN <<cur>> \o SplitFrom(s, sep, i + 1, <<>>)
    ELSE SplitFrom(s, sep, i + 1, Append(cur, s[i]))

Split(s, sep) == SplitFrom(s, sep, 1, <<>>)

\* --------------------------------------------------- name canonicalizer
\* Mutant: one underscore between the prefix and the name.
build_full_name_OneUnderscore(prefix, name) == prefix \o <<"_">> \o name

\* build_full_name(prefix, name) with name a string and seq=None.
build_full_name(prefix, name) == prefix \o Str2 \o name

build_cand_name(name, label) == StrLayerchoice \o label \o <<"_">> \o name

\* ------------------------------------------------- the declarative model
NodeIds == {"n1", "n2", "n3"}

\* Model.get_node_by_name: the node of that name in any graph, or None.
get_node_by_name(m, name) ==
    LET hits == {n \in NodeIds : \E g \in DOMAIN m.graphs :
                    \E i \in 1..Len(m.graphs[g]) :
                        m.graphs[g][i] = n /\ m.nodes[n].name = name}
    IN IF hits = {} THEN None ELSE CHOOSE n \in hits : TRUE

\* Graph.get_nodes_by_type: the graph's nodes of that operation type, in
\* the graph's node order.
get_nodes_by_type(m, g, kind) ==
    SelectSeq(m.graphs[g], LAMBDA n : m.nodes[n].operation.type = kind)

\* dict.get(key): the value, or None.
DictGet(d, key) == IF key \in DOMAIN d THEN d[key] ELSE None

\* ------------------------------------------------- layer-choice detector
\* Mutant: the isinstance test is left out.
is_layerchoice_node_AnyOperation(m, ir_node) ==
    IF /\ ir_node # None
       /\ DictGet(m.nodes[ir_node].operation.parameters, "mutation") = "layerchoice"
    THEN TRUE
    ELSE FALSE

is_layerchoice_node(m, ir_node) ==
    IF /\ ir_node # None
       /\ m.nodes[ir_node].operation.isCell
       /\ DictGet(m.nodes[ir_node].operation.parameters, "mutation") = "layerchoice"
    THEN TRUE
    ELSE FALSE

\* ---------------------------------------------------------- scope resolver
\* Mutant: the candidate's name is nested under the accumulated name.
ResolveStep_NestedCandidate(m, acc, segment) ==
    IF acc.raised THEN acc
    ELSE LET ir_node == get_node_by_name(m, acc.value)
         IN IF is_layerchoice_node(m, ir_node)
            THEN LET params == m.nodes[ir_node].operation.parameters
                 IN IF "label" \in DOMAIN params
                    THEN [raised |-> FALSE,
                          value |-> build_full_name(acc.value,
                              StrLayerchoice \o params.label \o <<"_">> \o segment)]
                    ELSE [raised |-> TRUE, value |-> acc.value]
            ELSE [raised |-> FALSE, value |-> build_full_name(acc.value, segment)]

\* One iteration of the loop of get_full_name_by_scope_name.  The result is
\* [raised, value]: raised when the layer-choice node has no "label" key.
ResolveStep(m, acc, segment) ==
    IF acc.raised THEN acc
    ELSE LET ir_node == get_node_by_name(m, acc.value)
         IN IF is_layerchoice_node(m, ir_node)
            THEN LET params == m.nodes[ir_node].operation.parameters
                 IN IF "label" \in DOMAIN params
                    THEN [raised |-> FALSE,
                          value |-> StrLayerchoice \o params.label \o <<"_">> \o segment]
                    ELSE [raised |-> TRUE, value |-> acc.value]
            ELSE [raised |-> FALSE, value |-> build_full_name(acc.value, segment)]

RECURSIVE ResolveFrom(_, _, _, _)
ResolveFrom(m, scope_names, i, acc) ==
    IF i > Len(scope_names) THEN acc
    ELSE ResolveFrom(m, scope_names, i + 1, ResolveStep(m, acc, scope_names[i]))

get_full_name_by_scope_name(m, scope_names, prefix) ==
    ResolveFrom(m, scope_names, 1, [raised |-> FALSE, value |-> prefix])

\* ------------------------------------------------------------ node matcher
\* Mutant: the first dotted segment is kept.
ScopeNamesOf_KeepFirst(scopeName) ==
    LET parts == Split(scopeName, "/")
    IN Split(parts[Len(parts)], ".")

\* torch_node.scopeName().split('/')[-1].split('.')[1:]
ScopeNamesOf(scopeName) ==
    LET parts == Split(scopeName, "/")
        dotted == Split(parts[Len(parts)], ".")
    IN SubSeq(dotted, 2, Len(dotted))

\* Mutant: the loop keeps the last unshaped node it meets.
FirstUnshaped_Last(m, nodes) ==
    LET unshaped == SelectSeq(nodes,
            LAMBDA n : m.nodes[n].operation.attributes.input_shape = <<>>)
    IN IF unshaped = <<>> THEN None ELSE unshaped[Len(unshaped)]

\* Mutant: the loop takes _without_shape_info for its test, so a node with
\* an output_shape is passed over.
FirstUnshaped_WithoutShapeInfo(m, nodes) ==
    LET unshaped == SelectSeq(nodes,
            LAMBDA n : /\ m.nodes[n].operation.attributes.input_shape = <<>>
                       /\ m.nodes[n].operation.attributes.output_shape = <<>>)
    IN IF unshaped = <<>> THEN None ELSE unshaped[1]

\* The loop over graph.get_nodes_by_type(kind): the first node whose
\* input_shape attribute is empty, or None.
FirstUnshaped(m, nodes) ==
    LET unshaped == SelectSeq(nodes,
            LAMBDA n : m.nodes[n].operation.attributes.input_shape = <<>>)
    IN IF unshaped = <<>> THEN None ELSE unshaped[1]

\* Mutant: the sub-graph branch walks all the graph's nodes, of any kind.
match_node_AnyKind(m, torch_node, prefix) ==
    LET scope_names == ScopeNamesOf(torch_node.scopeName)
        resolved == get_full_name_by_scope_name(m, scope_names, prefix)
        full_name == resolved.value
    IN IF resolved.raised THEN KeyError
       ELSE IF full_name \in DOMAIN m.graphs
            THEN FirstUnshaped(m, m.graphs[full_name])
            ELSE get_node_by_name(m, full_name)

\* Mutant: the lookup-by-name branch drops a node of another kind.
match_node_NameKindChecked(m, torch_node, prefix) ==
    LET scope_names == ScopeNamesOf(torch_node.scopeName)
        resolved == get_full_name_by_scope_name(m, scope_names, prefix)
        full_name == resolved.value
        named == get_node_by_name(m, full_name)
    IN IF resolved.raised THEN KeyError
       ELSE IF full_name \in DOMAIN m.graphs
            THEN FirstUnshaped(m, get_nodes_by_type(m, full_name, torch_node.kind))
            ELSE IF named # None /\ m.nodes[named].operation.type # torch_node.kind
                 THEN None
                 ELSE named

match_node(m, torch_node, prefix) ==
    LET scope_names == ScopeNamesOf(torch_node.scopeName)
        resolved == get_full_name_by_scope_name(m, scope_names, prefix)
        full_name == resolved.value
    IN IF resolved.raised THEN KeyError
       ELSE IF full_name \in DOMAIN m.graphs
            THEN FirstUnshaped(m, get_nodes_by_type(m, full_name, torch_node.kind))
            ELSE get_node_by_name(m, full_name)

\* ------------------------------------------------ trace metadata extractor
\* A traced value is [typeKind, sizes, ivalue, node_inputs]: type().kind(),
\* type().sizes() (None when shape inference failed), toIValue() (None when
\* the value is no constant) and the sizes of the inputs of node(), the
\* operation producing the value.
Truthy(shape) == shape # PyNone /\ shape[1] # <<>>

\* Mutant: the test of the shape is left out.
TensorShapes_KeepEmpty(values) ==
    LET kept == SelectSeq(values, LAMBDA v : v.typeKind = "TensorType")
    IN [i \in 1..Len(kept) |-> kept[i].sizes]

\* The shapes of the tensor-typed values of a list that have a non-empty
\* shape, in order (the loops over the inputs and over the outputs).
TensorShapes(values) ==
    LET kept == SelectSeq(values,
            LAMBDA v : v.typeKind = "TensorType" /\ Truthy(v.sizes))
    IN [i \in 1..Len(kept) |-> kept[i].sizes]

\* Mutant: the sizes of the record's own inputs are read.
CatInputShapes_Direct(inputs) == [i \in 1..Len(inputs) |-> inputs[i].sizes]

\* input.type().sizes() of every input of inputs[0].node()
CatInputShapes(inputs) == inputs[1].node_inputs

_extract_info_from_trace_node(trace_node) ==
    LET inputs == trace_node.inputs
        isCat == trace_node.kind = "aten::cat"
        shape_parameters ==
            [input_shape |-> IF isCat THEN CatInputShapes(inputs)
                             ELSE TensorShapes(inputs),
             output_shape |-> TensorShapes(trace_node.outputs)]
    IN IF isCat /\ Len(inputs) < 2 THEN [error |-> IndexError]
       ELSE IF isCat
            THEN [shape_parameters |-> shape_parameters,
                  parameters |-> PySome([dim |-> inputs[2].ivalue])]
            ELSE [shape_parameters |-> shape_parameters, parameters |-> PyNone]

\* ------------------------------------------------- the models and inputs
NameM == <<"m">>
NameMA == <<"m", "_", "_", "a">>
NameMAA == <<"m", "_", "_", "a", "_", "_", "a">>
NameMB == <<"m", "_", "_", "b">>
NameCandLA == <<"l", "a", "y", "e", "r", "c", "h", "o", "i", "c", "e", "_", "L", "_", "a">>

Unshaped == <<>>
Shaped == << <<1, 3, 8, 8>> >>

Attributes(shapes) == [input_shape |-> shapes[1], output_shape |-> shapes[2]]

\* <<input_shape, output_shape>> of a node: neither known, both known, and
\* only the output known.
NoShapes == <<Unshaped, Unshaped>>
ShapeChoices == {NoShapes, <<Shaped, Shaped>>, <<Unshaped, Shaped>>}

\* Operations of the module node n1: Cell variants and a generic operation.
ModuleOperations ==
    { [type |-> "_cell", isCell |-> TRUE,
       parameters |-> [mutation |-> "layerchoice", label |-> <<"L">>],
       attributes |-> Attributes(NoShapes)],
      [type |-> "_cell", isCell |-> TRUE,
       parameters |-> [mutation |-> "layerchoice", label |-> <<"K">>],
       attributes |-> Attributes(NoShapes)],
      [type |-> "_cell", isCell |-> TRUE,
       parameters |-> [mutation |-> "inputchoice", label |-> <<"L">>],
       attributes |-> Attributes(NoShapes)],
      [type |-> "_cell", isCell |-> TRUE,
       parameters |-> [cell_name |-> <<"c">>],
       attributes |-> Attributes(NoShapes)],
      [type |-> "aten::relu", isCell |-> FALSE,
       parameters |-> [mutation |-> "layerchoice", label |-> <<"L">>],
       attributes |-> Attributes(NoShapes)] }

TraceKinds == {"aten::relu", "aten::cat"}

\* Generic operations of the nodes n2 and n3, used directly in forward().
PrimOperation(kind, shapes) ==
    [type |-> kind, isCell |-> FALSE, parameters |-> [inplace |-> "False"],
     attributes |-> Attributes(shapes)]

Node(name, operation) == [name |-> name, operation |-> operation]

\* The root graph m holds the module node n1; the sub-graph g holds n2, n3.
Models ==
    { [graphs |-> (NameM :> <<"n1">>) @@ (g :> <<"n2", "n3">>),
       nodes |-> [n \in NodeIds |->
            CASE n = "n1" -> Node(n1name, n1op)
              [] n = "n2" -> Node(NameMAA, PrimOperation(n2kind, n2shape))
              [] n = "n3" -> Node(NameMB, PrimOperation("aten::relu", n3shape))]] :
        n1name \in {NameM, NameMA}, n1op \in ModuleOperations,
        n2kind \in TraceKinds, n2shape \in ShapeChoices,
        n3shape \in {NoShapes, <<Shaped, Shaped>>},
        g \in {NameMA, NameCandLA} }

Prefixes == {<<>>, NameM}
Segments == {<<"a">>, <<"b">>}
ScopeSeqs == SeqUpTo(Segments, MaxScopeLen)
ScopePaths == SeqUpTo({"a", ".", "/"}, MaxPathLen)
TraceRecords == [kind : TraceKinds, scopeName : ScopePaths]

\* Traced values: tensors (shaped, zero-rank, not inferred), integer
\* constants, and the list a prim::ListConstruct node builds from tensors.
Value(typeKind, sizes, ivalue, node_inputs) ==
    [typeKind |-> typeKind, sizes |-> sizes, ivalue |-> ivalue,
     node_inputs |-> node_inputs]

TensorValues ==
    {Value("TensorType", sz, PyNone, <<>>) :
        sz \in {PySome(<<1, 3>>), PySome(<<>>), PyNone}}
IntValues == {Value("IntType", PyNone, PySome(d), <<>>) : d \in {0, 1}}
ListValues ==
    {Value("ListType", PyNone, PyNone, p) :
        p \in SeqUpTo({PySome(<<1, 3>>), PySome(<<1, 4>>)}, MaxInputs)}
PlainValues == TensorValues \cup IntValues
OutputValues ==
    {Value("TensorType", PySome(<<1, 4>>), PyNone, <<>>),
     Value("TensorType", PySome(<<>>), PyNone, <<>>),
     Value("IntType", PyNone, PySome(1), <<>>)}

\* Input lists: plain values, the first of which may be a constructed list.
InputLists ==
    SeqUpTo(PlainValues, MaxInputs)
    \cup {<<l>> \o rest : l \in ListValues, rest \in SeqUpTo(PlainValues, MaxInputs - 1)}

TraceNodes ==
    [kind : TraceKinds, inputs : InputLists, outputs : SeqUpTo(OutputValues, MaxInputs)]

\* The extractor takes no model.
NoModel == [graphs |-> <<>>, nodes |-> <<>>]

\* ------------------------------------------------------------ the machine
NoResult == [idle |-> TRUE]

\* No stream of records has begun on the model m.
NoStream(m) == [start |-> m, kind |-> None, graph |-> <<>>, stored |-> <<>>]

Init ==
    /\ model \in Models
    /\ call = [op |-> "init"]
    /\ ret = NoResult
    /\ stream = NoStream(model)

\* No call is in progress: the previous record and result were discarded.
Idle == call.op = "init"

\* A call of is_layerchoice_node.
IsLayerChoice ==
    /\ Idle
    /\ \E n \in NodeIds \cup {None} :
        /\ call' = [op |-> "is_layerchoice_node", ir_node |-> n]
        /\ ret' = [is_layerchoice |-> is_layerchoice_node(model, n)]
        /\ UNCHANGED <<model, stream>>

\* A call of get_full_name_by_scope_name.
Resolve ==
    /\ Idle
    /\ \E s \in ScopeSeqs, p \in Prefixes :
        /\ call' = [op |-> "get_full_name_by_scope_name", scope_names |-> s, prefix |-> p]
        /\ ret' = get_full_name_by_scope_name(model, s, p)
        /\ UNCHANGED <<model, stream>>

\* Mutant: the matcher records a shape on the node it returns.
MatchNode_MarksMatched ==
    /\ Idle
    /\ \E t \in TraceRecords, p \in Prefixes :
        LET n == match_node(model, t, p)
        IN /\ call' = [op |-> "match_node", torch_node |-> t, prefix |-> p]
           /\ ret' = [node |-> n]
           /\ model' = IF n \in NodeIds
                        THEN [model EXCEPT
                                !.nodes[n].operation.attributes.input_shape = Shaped]
                        ELSE model
           /\ UNCHANGED stream

\* A call of match_node.
MatchNode ==
    /\ Idle
    /\ \E t \in TraceRecords, p \in Prefixes :
        /\ call' = [op |-> "match_node", torch_node |-> t, prefix |-> p]
        /\ ret' = [node |-> match_node(model, t, p)]
        /\ UNCHANGED <<model, stream>>

\* The caller drops the transient record and the result of the last call.
Discard ==
    /\ ~Idle
    /\ call' = [op |-> "init"]
    /\ ret' = NoResult
    /\ UNCHANGED <<model, stream>>

\* A call of _extract_info_from_trace_node.
Extract ==
    /\ Idle
    /\ \E t \in TraceNodes :
        /\ call' = [op |-> "_extract_info_from_trace_node", trace_node |-> t]
        /\ ret' = _extract_info_from_trace_node(t)
        /\ UNCHANGED <<model, stream>>

Next == IsLayerChoice \/ Resolve \/ MatchNode \/ Discard

Spec == Init /\ [][Next]_vars

\* The extractor alone, on every trace node of the bounded set.
InitExtract ==
    /\ model = NoModel
    /\ call = [op |-> "init"]
    /\ ret = NoResult
    /\ stream = NoStream(NoModel)

NextExtract == Extract \/ Discard

SpecExtract == InitExtract /\ [][NextExtract]_vars

\* A stream of trace records of one kind whose scopes resolve to one
\* sub-graph: the first call fixes the kind and the sub-graph.
StreamMatch ==
    /\ Idle
    /\ \E t \in TraceRecords, p \in Prefixes :
        LET resolved == get_full_name_by_scope_name(model, ScopeNamesOf(t.scopeName), p)
        IN /\ ~resolved.raised
           /\ resolved.value \in DOMAIN model.graphs
           /\ \/ stream.kind = None
              \/ t.kind = stream.kind /\ resolved.value = stream.graph
           /\ call' = [op |-> "match_node", torch_node |-> t, prefix |-> p]
           /\ ret' = [node |-> match_node(model, t, p)]
           /\ stream' = [stream EXCEPT !.kind = t.kind, !.graph = resolved.value]
           /\ UNCHANGED model

\* The caller stores a non-empty input_shape on the node match_node
\* returned, and changes nothing else of the model.
StoreShape ==
    /\ call.op = "match_node"
    /\ ret.node \in NodeIds
    /\ model' = [model EXCEPT !.nodes[ret.node].operation.attributes.input_shape = Shaped]
    /\ stream' = [stream EXCEPT !.stored = Append(@, ret.node)]
    /\ call' = [op |-> "init"]
    /\ ret' = NoResult

\* The stream: after a match the caller stores a shape on the returned
\* node, or drops the result and leaves the model as it is.
NextStream == StreamMatch \/ StoreShape \/ Discard

SpecStream == Init /\ [][NextStream]_vars

\* Scope segments as module attribute names can be: plain, with an inner
\* underscore, with an inner "__", and beginning or ending with "_".
NameSegments ==
    { <<"a">>, <<"b">>, <<"a", "_", "b">>, <<"a", "_", "_", "b">>,
      <<"_", "b">>, <<"a", "_">> }
NameSeqs == SeqUpTo(NameSegments, MaxScopeLen)

\* The models that differ in the module node n1 and in the sub-graph's name.
ResolverModels ==
    {m \in Models :
        /\ m.nodes["n2"].operation = PrimOperation("aten::relu", NoShapes)
        /\ m.nodes["n3"].operation = PrimOperation("aten::relu", NoShapes)}

InitNames ==
    /\ model \in ResolverModels
    /\ call = [op |-> "init"]
    /\ ret = NoResult
    /\ stream = NoStream(model)

\* A call of get_full_name_by_scope_name on such segments.
ResolveNames ==
    /\ Idle
    /\ \E s \in NameSeqs, p \in Prefixes :
        /\ call' = [op |-> "get_full_name_by_scope_name", scope_names |-> s, prefix |-> p]
        /\ ret' = get_full_name_by_scope_name(model, s, p)
        /\ UNCHANGED <<model, stream>>

NextNames == ResolveNames \/ Discard

SpecNames == InitNames /\ [][NextNames]_vars

\* ------------------------------------------------------------ properties
IsMatch == call.op = "match_node"

\* The full name match_node resolves for the call in progress.
MatchFullName ==
    get_full_name_by_scope_name(model, ScopeNamesOf(call.torch_node.scopeName),
                                call.prefix).value

InSubGraphBranch == IsMatch /\ MatchFullName \in DOMAIN model.graphs
InByNameBranch == IsMatch /\ MatchFullName \notin DOMAIN model.graphs

KindOf(n) == model.nodes[n].operation.type

\* C1 (as stated): a node match_node returns, through either branch, has
\* the kind of the trace record.
C1_ReturnedKindAlwaysEqual ==
    (IsMatch /\ ret.node \in NodeIds) => KindOf(ret.node) = call.torch_node.kind

\* C1 (amended): a node match_node returns through the sub-graph branch has
\* the kind of the trace record; the lookup-by-name branch returns the node
\* of that name whatever its kind.
C1_SubGraphKindEqual ==
    /\ (InSubGraphBranch /\ ret.node \in NodeIds) => KindOf(ret.node) = call.torch_node.kind
    /\ (InByNameBranch /\ ret.node \in NodeIds) => model.nodes[ret.node].name = MatchFullName

C1_Witness ==
    /\ InSubGraphBranch
    /\ ret.node \in NodeIds
    /\ \E n \in NodeIds : KindOf(n) # call.torch_node.kind
                          /\ model.nodes[n].operation.attributes.input_shape = <<>>
                          /\ \E i \in 1..Len(model.graphs[MatchFullName]) :
                                model.graphs[MatchFullName][i] = n

\* A node of the trace record's kind with an empty input_shape.
Qualifies(n) ==
    /\ KindOf(n) = call.torch_node.kind
    /\ model.nodes[n].operation.attributes.input_shape = <<>>

\* The result is the first qualifying node of the sub-graph named x, in the
\* sub-graph's order, and None when it has none.
SubGraphResult(x) ==
    LET g == model.graphs[x]
    IN \/ \E i \in 1..Len(g) : /\ Qualifies(g[i])
                               /\ \A j \in 1..(i - 1) : ~Qualifies(g[j])
                               /\ ret.node = g[i]
       \/ /\ \A i \in 1..Len(g) : ~Qualifies(g[i])
          /\ ret.node = None

\* C2: when the resolved name is a sub-graph, match_node returns the first
\* node in the sub-graph's order that has the record's kind and an empty
\* input_shape (whatever its output_shape), and None when there is none,
\* even if a node of the resolved name exists.
C2_FirstUnshapedSameKind == InSubGraphBranch => SubGraphResult(MatchFullName)

\* The scenario of the specification: two nodes of the record's kind, the
\* first without input_shape, the second with one; the first is returned.
C2_Witness ==
    /\ InSubGraphBranch
    /\ model.graphs[MatchFullName] = <<"n2", "n3">>
    /\ KindOf("n2") = call.torch_node.kind
    /\ KindOf("n3") = call.torch_node.kind
    /\ model.nodes["n2"].operation.attributes = Attributes(<<Unshaped, Shaped>>)
    /\ model.nodes["n3"].operation.attributes.input_shape # <<>>
    /\ ret.node = "n2"

\* The nodes of the model that carry the name x.
Named(x) ==
    {n \in NodeIds : /\ model.nodes[n].name = x
                     /\ \E g \in DOMAIN model.graphs :
                            \E i \in 1..Len(model.graphs[g]) : model.graphs[g][i] = n}

\* The result is the node named x itself, and None when there is none.
ByNameResult(x) ==
    \/ ret.node \in Named(x)
    \/ Named(x) = {} /\ ret.node = None

\* C3: when the resolved name is no sub-graph, match_node returns the node
\* of that name itself, and None when the model has no such node.
C3_ByNameExact == InByNameBranch => ByNameResult(MatchFullName)

C3_Witness ==
    /\ InByNameBranch
    /\ ret.node \in NodeIds
    /\ KindOf(ret.node) # call.torch_node.kind

IsResolve == call.op = "get_full_name_by_scope_name"

\* prefix followed by "__" and the segment, for each segment in order.
RECURSIVE PlainName(_, _)
PlainName(prefix, segments) ==
    IF segments = <<>> THEN prefix
    ELSE PlainName(prefix \o <<"_", "_">> \o segments[1], Tail(segments))

\* The model has a layer-choice node named x: a Cell whose parameters map
\* mutation to layerchoice.
LayerChoiceAt(x) ==
    \E n \in Named(x) :
        /\ model.nodes[n].operation.isCell
        /\ "mutation" \in DOMAIN model.nodes[n].operation.parameters
        /\ model.nodes[n].operation.parameters.mutation = "layerchoice"

\* No lookup of the resolution finds a layer-choice node: the names looked
\* up are then the plain names of the proper prefixes of the sequence.
CrossesNoLayerChoice(prefix, segments) ==
    \A i \in 1..Len(segments) :
        ~LayerChoiceAt(PlainName(prefix, SubSeq(segments, 1, i - 1)))

\* C4: a resolution that looks up no layer-choice node returns the prefix
\* followed by "__" and the segment for each segment in order (the prefix
\* itself for no segment).
C4_PlainFold ==
    (IsResolve /\ CrossesNoLayerChoice(call.prefix, call.scope_names)) =>
        /\ ~ret.raised
        /\ ret.value = PlainName(call.prefix, call.scope_names)

\* Two segments under a prefix, with a Cell that is no layer choice looked
\* up on the way.
C4_Witness ==
    /\ IsResolve
    /\ Len(call.scope_names) = 2
    /\ call.prefix # <<>>
    /\ CrossesNoLayerChoice(call.prefix, call.scope_names)
    /\ \E n \in Named(PlainName(call.prefix, <<call.scope_names[1]>>)) :
            model.nodes[n].operation.isCell
    /\ ret.value = PlainName(call.prefix, call.scope_names)

\* The name accumulated before the last segment of the call in progress.
NameBeforeLast ==
    get_full_name_by_scope_name(model,
        SubSeq(call.scope_names, 1, Len(call.scope_names) - 1), call.prefix).value

LastSegment == call.scope_names[Len(call.scope_names)]

\* C5: when the node named by the accumulated name is a layer-choice node
\* with label L, the name after the step is "layerchoice_" L "_" segment,
\* which is build_cand_name(segment, L): no part of the prefix or of the
\* earlier segments remains.  Every step of a resolution is the last step
\* of the call on the sequence cut there.
C5_LayerChoiceStep ==
    (IsResolve /\ call.scope_names # <<>>) =>
        \A n \in Named(NameBeforeLast) :
            (/\ model.nodes[n].operation.isCell
             /\ "mutation" \in DOMAIN model.nodes[n].operation.parameters
             /\ model.nodes[n].operation.parameters.mutation = "layerchoice") =>
                LET L == model.nodes[n].operation.parameters.label
                IN /\ ret.value = <<"l", "a", "y", "e", "r", "c", "h", "o", "i", "c", "e", "_">>
                                    \o L \o <<"_">> \o LastSegment
                   /\ ret.value = build_cand_name(LastSegment, L)

\* The layer choice is met at the second step, under a non-empty prefix.
C5_Witness ==
    /\ IsResolve
    /\ Len(call.scope_names) = 2
    /\ call.prefix # <<>>
    /\ LayerChoiceAt(NameBeforeLast)
    /\ ret.value = <<"l", "a", "y", "e", "r", "c", "h", "o", "i", "c", "e", "_", "K", "_", "b">>

\* The scope path of the call in progress has neither "/" nor ".".
Undelimited ==
    \A i \in 1..Len(call.torch_node.scopeName) :
        call.torch_node.scopeName[i] \notin {"/", "."}

\* The result is what match_node returns for the resolved name x.
ResultFor(x) ==
    IF x \in DOMAIN model.graphs THEN SubGraphResult(x) ELSE ByNameResult(x)

\* The name the undelimited path resolves to as a single scope segment.
SingleSegmentName ==
    get_full_name_by_scope_name(model, <<call.torch_node.scopeName>>, call.prefix).value

\* C6 (as stated): an undelimited (non-empty) scope path is matched as a
\* single scope segment under the prefix.
C6_UndelimitedIsOneSegment ==
    (IsMatch /\ Undelimited /\ call.torch_node.scopeName # <<>>) =>
        ResultFor(SingleSegmentName)

\* C6 (amended): match_node does not raise on an undelimited scope path;
\* the path is dropped as the first segment, so that the scope-name sequence
\* is empty and the result is the match for the prefix itself.
C6_UndelimitedIsDropped ==
    (IsMatch /\ Undelimited) =>
        /\ ret.node \in NodeIds \cup {None}
        /\ ResultFor(call.prefix)

\* An undelimited, non-empty path for which a node is returned.
C6_Witness ==
    /\ IsMatch
    /\ Undelimited
    /\ call.torch_node.scopeName # <<>>
    /\ ret.node \in NodeIds

IsDetect == call.op = "is_layerchoice_node"

\* C7: is_layerchoice_node is true exactly for a node that is not None,
\* whose operation is a Cell and whose parameters map mutation to
\* layerchoice; it is false for everything else.
C7_LayerChoiceIff ==
    IsDetect =>
        /\ ret.is_layerchoice \in BOOLEAN
        /\ ret.is_layerchoice <=>
            /\ call.ir_node # None
            /\ model.nodes[call.ir_node].operation.isCell
            /\ "mutation" \in DOMAIN model.nodes[call.ir_node].operation.parameters
            /\ model.nodes[call.ir_node].operation.parameters.mutation = "layerchoice"

\* A generic operation that carries the layer-choice marker is rejected.
C7_Witness ==
    /\ IsDetect
    /\ call.ir_node # None
    /\ ~model.nodes[call.ir_node].operation.isCell
    /\ "mutation" \in DOMAIN model.nodes[call.ir_node].operation.parameters
    /\ model.nodes[call.ir_node].operation.parameters.mutation = "layerchoice"
    /\ ret.is_layerchoice = FALSE

IsExtract == call.op = "_extract_info_from_trace_node"

\* The sizes, in order, of the values that are tensor-typed and whose sizes
\* are neither None nor empty.
RECURSIVE NonEmptyTensorSizes(_)
NonEmptyTensorSizes(values) ==
    IF values = <<>> THEN <<>>
    ELSE (IF /\ values[1].typeKind = "TensorType"
             /\ values[1].sizes # PyNone
             /\ values[1].sizes # PySome(<<>>)
          THEN <<values[1].sizes>>
          ELSE <<>>) \o NonEmptyTensorSizes(Tail(values))

Returned == IsExtract /\ "shape_parameters" \in DOMAIN ret

\* C9: for an aten::cat record the extractor returns, as input_shape, the
\* sizes in order of every input of the node producing the first input, and
\* as extra parameters dim, the constant of the second input; the extra
\* parameters are None exactly for the other kinds.
C9_CatShapesAndDim ==
    /\ (IsExtract /\ call.trace_node.kind = "aten::cat"
            /\ Len(call.trace_node.inputs) >= 2) =>
        /\ Returned
        /\ Len(ret.shape_parameters.input_shape)
                = Len(call.trace_node.inputs[1].node_inputs)
        /\ \A i \in 1..Len(call.trace_node.inputs[1].node_inputs) :
                ret.shape_parameters.input_shape[i]
                    = call.trace_node.inputs[1].node_inputs[i]
        /\ ret.parameters = PySome([dim |-> call.trace_node.inputs[2].ivalue])
    /\ Returned => (ret.parameters # PyNone <=> call.trace_node.kind = "aten::cat")

\* The scenario of the specification: the producing node has inputs of
\* shapes [1,3] and [1,4], the second input is the constant 1.
C9_Witness ==
    /\ IsExtract
    /\ call.trace_node.kind = "aten::cat"
    /\ Len(call.trace_node.inputs) = 2
    /\ call.trace_node.inputs[1].node_inputs = <<PySome(<<1, 3>>), PySome(<<1, 4>>)>>
    /\ call.trace_node.inputs[2].ivalue = PySome(1)
    /\ ret.shape_parameters.input_shape = <<PySome(<<1, 3>>), PySome(<<1, 4>>)>>
    /\ ret.parameters = PySome([dim |-> PySome(1)])

\* C10: a call of match_node or of get_full_name_by_scope_name leaves the
\* model as it was: its graphs, their node order, and every node's name,
\* operation, parameters and shape attributes.
C10_ModelUnchanged ==
    [][call'.op \in {"match_node", "get_full_name_by_scope_name"} => model' = model]_vars

\* match_node returned an unshaped node of a sub-graph.
C10_Witness ==
    /\ InSubGraphBranch
    /\ ret.node \in NodeIds
    /\ model.nodes[ret.node].operation.attributes.input_shape = <<>>
    /\ call.prefix # <<>>

\* The nodes of the stream's sub-graph that had the stream's kind and an
\* empty input_shape when the stream began, in the sub-graph's order.
StreamCandidates ==
    SelectSeq(stream.start.graphs[stream.graph],
        LAMBDA n : /\ stream.start.nodes[n].operation.type = stream.kind
                   /\ stream.start.nodes[n].operation.attributes.input_shape = <<>>)

\* C11: in a stream of records of one kind resolving to one sub-graph,
\* where the caller only ever stores a non-empty input_shape on the node
\* returned, the call made after k-1 stores returns the k-th node, in the
\* sub-graph's order, of the same-kind nodes that were unshaped at the
\* start (so the k-th call, when every match is followed by its store); a
\* node on which a shape was stored is not returned again; once all are
\* shaped the call returns None.  A call repeated without a store in
\* between has the same number of stores behind it, hence the same result.
C11_KthUnshapedInOrder ==
    IsMatch =>
        LET k == Len(stream.stored) + 1
        IN /\ stream.stored = SubSeq(StreamCandidates, 1, k - 1)
           /\ ret.node = IF k <= Len(StreamCandidates)
                         THEN StreamCandidates[k] ELSE None
           /\ \A i \in 1..Len(stream.stored) : stream.stored[i] # ret.node
           /\ \A i, j \in 1..Len(stream.stored) :
                stream.stored[i] = stream.stored[j] => i = j

\* Two candidates, both matched and shaped in order; the third call
\* returns None.
C11_Witness ==
    /\ IsMatch
    /\ Len(StreamCandidates) = 2
    /\ stream.stored = <<"n2", "n3">>
    /\ ret.node = None

\* A segment that is not empty, has no "__" and neither begins nor ends
\* with "_"; a sequence of such segments.
WellFormedSegment(seg) ==
    /\ seg # <<>>
    /\ seg[1] # "_"
    /\ seg[Len(seg)] # "_"
    /\ \A i \in 1..(Len(seg) - 1) : ~(seg[i] = "_" /\ seg[i + 1] = "_")

WellFormed(segments) == \A i \in 1..Len(segments) : WellFormedSegment(segments[i])

\* C12: under one prefix and in one model, two different sequences of
\* well-formed segments that cross no layer-choice node never resolve to
\* the same full name.
C12_Injective ==
    (IsResolve /\ WellFormed(call.scope_names)
        /\ CrossesNoLayerChoice(call.prefix, call.scope_names)) =>
        \A other \in NameSeqs :
            (/\ other # call.scope_names
             /\ WellFormed(other)
             /\ CrossesNoLayerChoice(call.prefix, other)) =>
                get_full_name_by_scope_name(model, other, call.prefix).value # ret.value

\* The path a.b resolved under a prefix: among the well-formed sequences
\* only it gives that name, which the single segment a__b gives as well.
C12_Witness ==
    /\ IsResolve
    /\ call.scope_names = << <<"a">>, <<"b">> >>
    /\ call.prefix # <<>>
    /\ CrossesNoLayerChoice(call.prefix, call.scope_names)
    /\ CrossesNoLayerChoice(call.prefix, << <<"a", "_", "_", "b">> >>)
    /\ get_full_name_by_scope_name(model, << <<"a", "_", "_", "b">> >>,
                                   call.prefix).value = ret.value

====
